---- MODULE Spec2Model ----
(***************************************************************************)
(* Road Tile SVG Generator (packages/tile-generator/generate.py).          *)
(*                                                                         *)
(* Text is modelled as TLA+ strings, built by concatenation exactly as the *)
(* templates build it, and read back by a small attribute/element scanner, *)
(* so that what a document contains is decided from its characters.        *)
(* main() is modelled as a sequential process over a directory; a second   *)
(* specification applies the two render functions to drawn arguments.      *)
(***************************************************************************)
EXTENDS Integers, Sequences, FiniteSets, TLC

\* ------------------------------------------------------------------------
\* Bounds
\* ------------------------------------------------------------------------

\* number of times main() is run against the same directory
MaxRuns == 2

\* ------------------------------------------------------------------------
\* String helpers
\* ------------------------------------------------------------------------

Min(S) == CHOOSE m \in S : \A n \in S : m <= n

Max(S) == CHOOSE m \in S : \A n \in S : m >= n

\* sep.join(parts)
RECURSIVE Join(_, _)
Join(parts, sep) ==
  IF Len(parts) = 0 THEN ""
  ELSE IF Len(parts) = 1 THEN parts[1]
  ELSE parts[1] \o sep \o Join(Tail(parts), sep)

\* c * n
RECURSIVE Repeat(_, _)
Repeat(c, n) == IF n <= 0 THEN "" ELSE c \o Repeat(c, n - 1)

\* str() of a float given as <<integer part, tenths>>, e.g. 0.5
FormatFloat(f) == ToString(f[1]) \o "." \o ToString(f[2])

\* ------------------------------------------------------------------------
\* Constants
\* ------------------------------------------------------------------------

TILE_SIZE == 40

GRID_STROKE == "#cccccc"

GRID_STROKE_WIDTH == <<0, 5>>

ROAD_STROKE == "#000000"

ROAD_STROKE_WIDTH == 1

PORT_MARKER_COLOR == "#ff0000"

PORT_MARKER_RADIUS == 1

\* ------------------------------------------------------------------------
\* SVG templates
\* ------------------------------------------------------------------------

SVG_HEADER_fixed_id(svg_id, size) ==
  Join(<<
    "<?xml version=\"1.0\" encoding=\"UTF-8\"?>",
    "<svg id=\"tile\" xmlns=\"http://www.w3.org/2000/svg\" width=\""
      \o ToString(size) \o "\" height=\"" \o ToString(size)
      \o "\" viewBox=\"0 0 " \o ToString(size) \o " " \o ToString(size) \o "\">"
  >>, "\n")

\* SVG_HEADER.format(svg_id=svg_id, size=size)
SVG_HEADER(svg_id, size) ==
  Join(<<
    "<?xml version=\"1.0\" encoding=\"UTF-8\"?>",
    "<svg id=\"" \o svg_id \o "\" xmlns=\"http://www.w3.org/2000/svg\" width=\""
      \o ToString(size) \o "\" height=\"" \o ToString(size)
      \o "\" viewBox=\"0 0 " \o ToString(size) \o " " \o ToString(size) \o "\">"
  >>, "\n")

GRID_LINES_short ==
  Join(<<
    "  <!-- Grid lines -->",
    "  <g stroke=\"" \o GRID_STROKE \o "\" stroke-width=\""
      \o FormatFloat(GRID_STROKE_WIDTH) \o "\" fill=\"none\">",
    "    <line x1=\"0\" y1=\"0\" x2=\"0\" y2=\"40\"/>",
    "    <line x1=\"10\" y1=\"0\" x2=\"10\" y2=\"40\"/>",
    "    <line x1=\"20\" y1=\"0\" x2=\"20\" y2=\"40\"/>",
    "    <line x1=\"30\" y1=\"0\" x2=\"30\" y2=\"40\"/>",
    "    <line x1=\"0\" y1=\"0\" x2=\"40\" y2=\"0\"/>",
    "    <line x1=\"0\" y1=\"10\" x2=\"40\" y2=\"10\"/>",
    "    <line x1=\"0\" y1=\"20\" x2=\"40\" y2=\"20\"/>",
    "    <line x1=\"0\" y1=\"30\" x2=\"40\" y2=\"30\"/>",
    "    <line x1=\"0\" y1=\"40\" x2=\"40\" y2=\"40\"/>",
    "  </g>"
  >>, "\n")

GRID_LINES ==
  Join(<<
    "  <!-- Grid lines -->",
    "  <g stroke=\"" \o GRID_STROKE \o "\" stroke-width=\""
      \o FormatFloat(GRID_STROKE_WIDTH) \o "\" fill=\"none\">",
    "    <line x1=\"0\" y1=\"0\" x2=\"0\" y2=\"40\"/>",
    "    <line x1=\"10\" y1=\"0\" x2=\"10\" y2=\"40\"/>",
    "    <line x1=\"20\" y1=\"0\" x2=\"20\" y2=\"40\"/>",
    "    <line x1=\"30\" y1=\"0\" x2=\"30\" y2=\"40\"/>",
    "    <line x1=\"40\" y1=\"0\" x2=\"40\" y2=\"40\"/>",
    "    <line x1=\"0\" y1=\"0\" x2=\"40\" y2=\"0\"/>",
    "    <line x1=\"0\" y1=\"10\" x2=\"40\" y2=\"10\"/>",
    "    <line x1=\"0\" y1=\"20\" x2=\"40\" y2=\"20\"/>",
    "    <line x1=\"0\" y1=\"30\" x2=\"40\" y2=\"30\"/>",
    "    <line x1=\"0\" y1=\"40\" x2=\"40\" y2=\"40\"/>",
    "  </g>"
  >>, "\n")

\* one <circle/> line of PORT_MARKERS
PortCircle(cx, cy) ==
  "    <circle cx=\"" \o cx \o "\" cy=\"" \o cy \o "\" r=\""
    \o ToString(PORT_MARKER_RADIUS) \o "\"/>"

PORT_MARKERS ==
  Join(<<
    "  <!-- Port markers -->",
    "  <g fill=\"" \o PORT_MARKER_COLOR \o "\">",
    PortCircle("10", "0"),
    PortCircle("20", "0"),
    PortCircle("30", "0"),
    PortCircle("40", "10"),
    PortCircle("40", "20"),
    PortCircle("40", "30"),
    PortCircle("10", "40"),
    PortCircle("20", "40"),
    PortCircle("30", "40"),
    PortCircle("0", "10"),
    PortCircle("0", "20"),
    PortCircle("0", "30"),
    "  </g>"
  >>, "\n")

SVG_FOOTER == "</svg>"

\* ------------------------------------------------------------------------
\* Tile definitions: the dict, as its items() in insertion order
\* ------------------------------------------------------------------------

TILE_DEFINITIONS ==
  <<
    [id |-> "curve-12-12",
     comment |-> "Curve: Up(P12) -> Right(P12)",
     outer_path |-> "M 10 0 L 10 10 C 10 15, 15 20, 20 20 L 40 20",
     inner_path |-> "M 20 0 L 20 5 C 20 7.5, 22.5 10, 25 10 L 40 10"],
    [id |-> "curve-12-23",
     comment |-> "Curve: Up(P12) -> Right(P23)",
     outer_path |-> "M 10 0 L 10 20 C 10 25, 15 30, 20 30 L 40 30",
     inner_path |-> "M 20 0 L 20 10 C 20 15, 25 20, 30 20 L 40 20"],
    [id |-> "curve-23-12",
     comment |-> "Curve: Up(P23) -> Right(P12)",
     outer_path |-> "M 20 0 L 20 10 C 20 15, 25 20, 30 20 L 40 20",
     inner_path |-> "M 30 0 L 30 5 C 30 7.5, 32.5 10, 35 10 L 40 10"],
    [id |-> "curve-23-23",
     comment |-> "Curve: Up(P23) -> Right(P23)",
     outer_path |-> "M 20 0 L 20 20 C 20 25, 25 30, 30 30 L 40 30",
     inner_path |-> "M 30 0 L 30 15 C 30 17.5, 32.5 20, 35 20 L 40 20"],
    [id |-> "curve-ul-12-12",
     comment |-> "Curve: Up(P12) -> Left(P12)",
     outer_path |-> "M 10 0 L 10 10 C 10 15, 5 20, 0 20 L 0 20",
     inner_path |-> "M 20 0 L 20 5 C 20 7.5, 17.5 10, 15 10 L 0 10"],
    [id |-> "curve-ul-12-23",
     comment |-> "Curve: Up(P12) -> Left(P23)",
     outer_path |-> "M 10 0 L 10 20 C 10 25, 5 30, 0 30 L 0 30",
     inner_path |-> "M 20 0 L 20 10 C 20 15, 15 20, 10 20 L 0 20"],
    [id |-> "curve-ul-23-12",
     comment |-> "Curve: Up(P23) -> Left(P12)",
     outer_path |-> "M 20 0 L 20 20 C 20 25, 15 30, 10 30 L 0 30",
     inner_path |-> "M 30 0 L 30 15 C 30 17.5, 25 20, 20 20 L 0 20"],
    [id |-> "curve-ul-23-23",
     comment |-> "Curve: Up(P23) -> Left(P23)",
     outer_path |-> "M 20 0 L 20 20 C 20 25, 25 30, 30 30 L 0 30",
     inner_path |-> "M 30 0 L 30 15 C 30 17.5, 32.5 20, 35 20 L 0 20"],
    [id |-> "sharp-12-12",
     comment |-> "Sharp: Up(P12) -> Right(P12)",
     outer_path |-> "M 10 0 L 10 20 L 40 20",
     inner_path |-> "M 20 0 L 20 10 L 40 10"],
    [id |-> "sharp-12-23",
     comment |-> "Sharp: Up(P12) -> Right(P23)",
     outer_path |-> "M 10 0 L 10 30 L 40 30",
     inner_path |-> "M 20 0 L 20 20 L 40 20"],
    [id |-> "sharp-23-12",
     comment |-> "Sharp: Up(P23) -> Right(P12)",
     outer_path |-> "M 20 0 L 20 20 L 40 20",
     inner_path |-> "M 30 0 L 30 10 L 40 10"],
    [id |-> "sharp-23-23",
     comment |-> "Sharp: Up(P23) -> Right(P23)",
     outer_path |-> "M 20 0 L 20 30 L 40 30",
     inner_path |-> "M 30 0 L 30 20 L 40 20"],
    [id |-> "sharp-ul-12-12",
     comment |-> "Sharp: Up(P12) -> Left(P12)",
     outer_path |-> "M 10 0 L 10 20 L 0 20",
     inner_path |-> "M 20 0 L 20 10 L 0 10"],
    [id |-> "sharp-ul-12-23",
     comment |-> "Sharp: Up(P12) -> Left(P23)",
     outer_path |-> "M 10 0 L 10 30 L 0 30",
     inner_path |-> "M 20 0 L 20 20 L 0 20"],
    [id |-> "sharp-ul-23-12",
     comment |-> "Sharp: Up(P23) -> Left(P12)",
     outer_path |-> "M 20 0 L 20 30 L 0 30",
     inner_path |-> "M 30 0 L 30 10 L 0 10"],
    [id |-> "sharp-ul-23-23",
     comment |-> "Sharp: Up(P23) -> Left(P23)",
     outer_path |-> "M 20 0 L 20 30 L 0 30",
     inner_path |-> "M 30 0 L 30 20 L 0 20"],
    [id |-> "straight-v-11",
     comment |-> "Straight Vertical: Up(P12) -> Down(P12)",
     outer_path |-> "M 10 0 L 10 40",
     inner_path |-> "M 20 0 L 20 40"],
    [id |-> "straight-v-22",
     comment |-> "Straight Vertical: Up(P23) -> Down(P23)",
     outer_path |-> "M 20 0 L 20 40",
     inner_path |-> "M 30 0 L 30 40"],
    [id |-> "straight-v-12",
     comment |-> "Straight Vertical: Up(P12) -> Down(P23) (lane shift)",
     outer_path |-> "M 10 0 C 10 20, 20 20, 20 40",
     inner_path |-> "M 20 0 C 20 20, 30 20, 30 40"],
    [id |-> "straight-v-21",
     comment |-> "Straight Vertical: Up(P23) -> Down(P12) (lane shift)",
     outer_path |-> "M 20 0 C 20 20, 10 20, 10 40",
     inner_path |-> "M 30 0 C 30 20, 20 20, 20 40"],
    [id |-> "straight-h-44",
     comment |-> "Straight Horizontal: Left(P12) -> Right(P12)",
     outer_path |-> "M 0 10 L 40 10",
     inner_path |-> "M 0 20 L 40 20"],
    [id |-> "straight-h-88",
     comment |-> "Straight Horizontal: Left(P23) -> Right(P23)",
     outer_path |-> "M 0 20 L 40 20",
     inner_path |-> "M 0 30 L 40 30"],
    [id |-> "straight-h-48",
     comment |-> "Straight Horizontal: Left(P12) -> Right(P23) (lane shift)",
     outer_path |-> "M 0 10 C 20 10, 20 20, 40 20",
     inner_path |-> "M 0 20 C 20 20, 20 30, 40 30"],
    [id |-> "straight-h-84",
     comment |-> "Straight Horizontal: Left(P23) -> Right(P12) (lane shift)",
     outer_path |-> "M 0 20 C 20 20, 20 10, 40 10",
     inner_path |-> "M 0 30 C 20 30, 20 20, 40 20"]
  >>

\* ------------------------------------------------------------------------
\* Marker definitions
\* ------------------------------------------------------------------------

START_MARKER ==
  Join(<<
    "  <!-- Start marker -->",
    "  <g transform=\"translate(20, 14)\">",
    "    <rect x=\"-6\" y=\"-6\" width=\"1.5\" height=\"16\" fill=\"#555\"/>",
    "    <path d=\"M -4.5 -6 v 8 L 6 -2 z\" fill=\"#3498db\"/>",
    "  </g>",
    "  <g transform=\"translate(20, 32)\">",
    "    <text x=\"0\" y=\"0\" font-family=\"Arial, sans-serif\" font-size=\"7\" text-anchor=\"middle\" font-weight=\"bold\" fill=\"#3498db\">START</text>",
    "  </g>"
  >>, "\n")

GOAL_MARKER ==
  Join(<<
    "  <!-- Goal marker -->",
    "  <g transform=\"translate(20, 14)\">",
    "    <circle cx=\"0\" cy=\"0\" r=\"8\" fill=\"none\" stroke=\"#e74c3c\" stroke-width=\"1.5\"/>",
    "    <circle cx=\"0\" cy=\"0\" r=\"4\" fill=\"none\" stroke=\"#e74c3c\" stroke-width=\"1.5\"/>",
    "    <circle cx=\"0\" cy=\"0\" r=\"1.5\" fill=\"#e74c3c\"/>",
    "  </g>",
    "  <g transform=\"translate(20, 32)\">",
    "    <text x=\"0\" y=\"0\" font-family=\"Arial, sans-serif\" font-size=\"7\" text-anchor=\"middle\" font-weight=\"bold\" fill=\"#e74c3c\">GOAL</text>",
    "  </g>"
  >>, "\n")

\* ------------------------------------------------------------------------
\* SVG generation functions
\* ------------------------------------------------------------------------

\* the road_group f-string of generate_road_svg
road_group_swapped(tile) ==
  Join(<<
    "  <!-- " \o tile.comment \o " -->",
    "  <g stroke=\"" \o ROAD_STROKE \o "\" stroke-width=\""
      \o ToString(ROAD_STROKE_WIDTH) \o "\" fill=\"none\">",
    "    <path d=\"" \o tile.inner_path \o "\"/>",
    "    <path d=\"" \o tile.outer_path \o "\"/>",
    "  </g>"
  >>, "\n")

road_group(tile) ==
  Join(<<
    "  <!-- " \o tile.comment \o " -->",
    "  <g stroke=\"" \o ROAD_STROKE \o "\" stroke-width=\""
      \o ToString(ROAD_STROKE_WIDTH) \o "\" fill=\"none\">",
    "    <path d=\"" \o tile.outer_path \o "\"/>",
    "    <path d=\"" \o tile.inner_path \o "\"/>",
    "  </g>"
  >>, "\n")

generate_road_svg(svg_id, tile) ==
  Join(<<
    SVG_HEADER(svg_id, TILE_SIZE),
    GRID_LINES,
    "",
    road_group(tile),
    "",
    PORT_MARKERS,
    SVG_FOOTER,
    ""
  >>, "\n")

generate_marker_svg_with_ports(svg_id, marker_content) ==
  Join(<<
    SVG_HEADER(svg_id, TILE_SIZE),
    GRID_LINES,
    "",
    marker_content,
    "",
    PORT_MARKERS,
    SVG_FOOTER,
    ""
  >>, "\n")

generate_marker_svg(svg_id, marker_content) ==
  Join(<<
    SVG_HEADER(svg_id, TILE_SIZE),
    GRID_LINES,
    "",
    marker_content,
    SVG_FOOTER,
    ""
  >>, "\n")

\* ------------------------------------------------------------------------
\* Output directory and process state
\* ------------------------------------------------------------------------

\* OUTPUT_DIR = SCRIPT_DIR / "assets", relative to the script's directory
OUTPUT_DIR == "assets"

\* names and contents the directory may hold before the first run
PriorNames == {"goal.svg", "README.md"}

PriorContents == {"<svg id=\"old\"/>\n"}

VARIABLES
  pc,         \* position of main(): mkdir, banner, tiles, start, goal,
              \* summary, done, aborted (an exception left main), off
  run,        \* which run of main() this is
  dir,        \* "missing" or "present": the output directory
  files,      \* the directory's regular files: name -> content
  i,          \* position of the for loop in TILE_DEFINITIONS.items()
  out,        \* stdout of this run, one entry per print() call
  mkdirs,     \* number of OUTPUT_DIR.mkdir calls made by this run
  attempted,  \* filenames write_svg was called with in this run, in order
  written,    \* filenames write_svg returned normally for, in order
  startedEmpty, \* TRUE when this run started on a missing or empty directory
  prevDone,   \* TRUE when the previous run ended normally
  prevFiles,  \* the files the previous run left, when it ended normally
  call,       \* render specification: the pending call and its arguments
  ret         \* render specification: the returned document

vars == <<pc, run, dir, files, i, out, mkdirs, attempted, written,
          startedEmpty, prevDone, prevFiles, call, ret>>

mainVars == <<pc, run, dir, files, i, out, mkdirs, attempted, written,
              startedEmpty, prevDone, prevFiles>>

NoFiles == [n \in {} |-> ""]

NoCall == [fn |-> "none"]

\* the file f holds c afterwards, every other file is as it was
Put(fs, f, c) == [n \in (DOMAIN fs) \cup {f} |-> IF n = f THEN c ELSE fs[n]]

\* what a file can hold when open(filepath, "w") succeeded and the write or
\* the close raised: it was truncated, and at most a prefix reached it
PartialLens(content) == {0, Len(content) \div 2}

\* ------------------------------------------------------------------------
\* write_svg
\* ------------------------------------------------------------------------

\* as write_svg, with the file opened for appending
write_svg_append(filename, content, printed) ==
  /\ dir = "present"
  /\ files' = Put(files, filename,
                  (IF filename \in DOMAIN files THEN files[filename] ELSE "") \o content)
  /\ out' = (out \o printed) \o <<"  Generated: " \o filename>>
  /\ attempted' = Append(attempted, filename)
  /\ written' = Append(written, filename)

\* write_svg(filename, content) returning normally; printed holds what the
\* caller printed earlier in the same step
write_svg(filename, content, printed) ==
  /\ dir = "present"
  /\ files' = Put(files, filename, content)
  /\ out' = (out \o printed) \o <<"  Generated: " \o filename>>
  /\ attempted' = Append(attempted, filename)
  /\ written' = Append(written, filename)

\* write_svg(filename, content) raising: open() failed and nothing was
\* touched, or the file was opened (truncated) and the write failed; the
\* exception leaves main() through the caller
write_svg_raises(filename, content, printed) ==
  /\ \/ files' = files
     \/ /\ dir = "present"
        /\ \E n \in PartialLens(content) :
             files' = Put(files, filename, SubSeq(content, 1, n))
  /\ out' = out \o printed
  /\ attempted' = Append(attempted, filename)
  /\ written' = written

\* ------------------------------------------------------------------------
\* main
\* ------------------------------------------------------------------------

Init ==
  /\ pc = "mkdir"
  /\ run = 1
  /\ \/ dir = "missing" /\ files = NoFiles
     \/ dir = "present" /\ \E S \in SUBSET PriorNames : files \in [S -> PriorContents]
  /\ i = 0
  /\ out = <<>>
  /\ mkdirs = 0
  /\ attempted = <<>>
  /\ written = <<>>
  /\ startedEmpty = (DOMAIN files = {})
  /\ prevDone = FALSE
  /\ prevFiles = NoFiles
  /\ call = NoCall
  /\ ret = ""

\* main() without its mkdir call
Mkdir_skipped ==
  /\ pc = "mkdir"
  /\ pc' = "banner"
  /\ UNCHANGED <<run, dir, files, i, out, mkdirs, attempted, written, startedEmpty, prevDone, prevFiles, call, ret>>

\* OUTPUT_DIR.mkdir(parents=True, exist_ok=True) succeeds
Mkdir ==
  /\ pc = "mkdir"
  /\ mkdirs' = mkdirs + 1
  /\ dir' = "present"
  /\ pc' = "banner"
  /\ UNCHANGED <<run, files, i, out, attempted, written, startedEmpty, prevDone, prevFiles, call, ret>>

\* the directory is missing and cannot be created: mkdir raises
MkdirFail ==
  /\ pc = "mkdir"
  /\ dir = "missing"
  /\ mkdirs' = mkdirs + 1
  /\ pc' = "aborted"
  /\ UNCHANGED <<run, dir, files, i, out, attempted, written, startedEmpty, prevDone, prevFiles, call, ret>>

Banner ==
  /\ pc = "banner"
  /\ out' = out \o << Repeat("=", 60),
                      "Road Tile SVG Generator",
                      Repeat("=", 60),
                      "Output directory: " \o OUTPUT_DIR,
                      "",
                      "Generating road tiles..." >>
  /\ i' = 1
  /\ pc' = IF Len(TILE_DEFINITIONS) = 0 THEN "start" ELSE "tiles"
  /\ UNCHANGED <<run, dir, files, mkdirs, attempted, written, startedEmpty, prevDone, prevFiles, call, ret>>

\* one iteration of the for loop
WriteTile ==
  /\ pc = "tiles"
  /\ i <= Len(TILE_DEFINITIONS)
  /\ LET tile_id == TILE_DEFINITIONS[i].id
         tile == TILE_DEFINITIONS[i]
         svg_content == generate_road_svg(tile_id, tile)
     IN write_svg(tile_id \o ".svg", svg_content, <<>>)
  /\ i' = i + 1
  /\ pc' = IF i = Len(TILE_DEFINITIONS) THEN "start" ELSE "tiles"
  /\ UNCHANGED <<run, dir, mkdirs, startedEmpty, prevDone, prevFiles, call, ret>>

\* the loop body catching the exception and going on
WriteTileFail_swallowed ==
  /\ pc = "tiles"
  /\ i <= Len(TILE_DEFINITIONS)
  /\ LET tile_id == TILE_DEFINITIONS[i].id
         tile == TILE_DEFINITIONS[i]
         svg_content == generate_road_svg(tile_id, tile)
     IN write_svg_raises(tile_id \o ".svg", svg_content, <<>>)
  /\ i' = i + 1
  /\ pc' = IF i = Len(TILE_DEFINITIONS) THEN "start" ELSE "tiles"
  /\ UNCHANGED <<run, dir, mkdirs, startedEmpty, prevDone, prevFiles, call, ret>>

WriteTileFail ==
  /\ pc = "tiles"
  /\ i <= Len(TILE_DEFINITIONS)
  /\ LET tile_id == TILE_DEFINITIONS[i].id
         tile == TILE_DEFINITIONS[i]
         svg_content == generate_road_svg(tile_id, tile)
     IN write_svg_raises(tile_id \o ".svg", svg_content, <<>>)
  /\ pc' = "aborted"
  /\ UNCHANGED <<run, dir, i, mkdirs, startedEmpty, prevDone, prevFiles, call, ret>>

WriteStart ==
  /\ pc = "start"
  /\ write_svg("start.svg", generate_marker_svg("start", START_MARKER),
               <<"\nGenerating marker tiles...">>)
  /\ pc' = "goal"
  /\ UNCHANGED <<run, dir, i, mkdirs, startedEmpty, prevDone, prevFiles, call, ret>>

WriteStartFail ==
  /\ pc = "start"
  /\ write_svg_raises("start.svg", generate_marker_svg("start", START_MARKER),
                      <<"\nGenerating marker tiles...">>)
  /\ pc' = "aborted"
  /\ UNCHANGED <<run, dir, i, mkdirs, startedEmpty, prevDone, prevFiles, call, ret>>

\* the goal marker written under the start marker's filename
WriteGoal_as_start ==
  /\ pc = "goal"
  /\ write_svg("start.svg", generate_marker_svg("goal", GOAL_MARKER), <<>>)
  /\ pc' = "summary"
  /\ UNCHANGED <<run, dir, i, mkdirs, startedEmpty, prevDone, prevFiles, call, ret>>

WriteGoal ==
  /\ pc = "goal"
  /\ write_svg("goal.svg", generate_marker_svg("goal", GOAL_MARKER), <<>>)
  /\ pc' = "summary"
  /\ UNCHANGED <<run, dir, i, mkdirs, startedEmpty, prevDone, prevFiles, call, ret>>

WriteGoalFail ==
  /\ pc = "goal"
  /\ write_svg_raises("goal.svg", generate_marker_svg("goal", GOAL_MARKER), <<>>)
  /\ pc' = "aborted"
  /\ UNCHANGED <<run, dir, i, mkdirs, startedEmpty, prevDone, prevFiles, call, ret>>

\* the count without the two markers
total_files_tiles_only == Len(TILE_DEFINITIONS)

\* total_files = len(TILE_DEFINITIONS) + 2
total_files == Len(TILE_DEFINITIONS) + 2

\* the line reporting the final count
CountLine(n) ==
  "Generation complete! " \o ToString(n) \o " SVG files created."

Summary ==
  /\ pc = "summary"
  /\ out' = out \o <<
          "",
          Repeat("=", 60),
          CountLine(total_files),
          Repeat("=", 60),
          "",
          "Generated files:",
          "  Curve (Up->Right):     curve-12-12, curve-12-23, curve-23-12, curve-23-23",
          "  Curve (Up->Left):      curve-ul-12-12, curve-ul-12-23, curve-ul-23-12, curve-ul-23-23",
          "  Sharp (Up->Right):     sharp-12-12, sharp-12-23, sharp-23-12, sharp-23-23",
          "  Sharp (Up->Left):      sharp-ul-12-12, sharp-ul-12-23, sharp-ul-23-12, sharp-ul-23-23",
          "  Straight (Vertical):   straight-v-11, straight-v-12, straight-v-21, straight-v-22",
          "  Straight (Horizontal): straight-h-44, straight-h-48, straight-h-84, straight-h-88",
          "  Markers:               start, goal" >>
  /\ pc' = "done"
  /\ UNCHANGED <<run, dir, files, i, mkdirs, attempted, written, startedEmpty, prevDone, prevFiles, call, ret>>

\* the script is run again on the directory the last run left
Rerun ==
  /\ pc \in {"done", "aborted"}
  /\ run < MaxRuns
  /\ run' = run + 1
  /\ pc' = "mkdir"
  /\ i' = 0
  /\ out' = <<>>
  /\ mkdirs' = 0
  /\ attempted' = <<>>
  /\ written' = <<>>
  /\ startedEmpty' = (DOMAIN files = {})
  /\ prevDone' = (pc = "done")
  /\ prevFiles' = IF pc = "done" THEN files ELSE NoFiles
  /\ UNCHANGED <<dir, files, call, ret>>

Next ==
  \/ Mkdir
  \/ MkdirFail
  \/ Banner
  \/ WriteTile
  \/ WriteTileFail
  \/ WriteStart
  \/ WriteStartFail
  \/ WriteGoal
  \/ WriteGoalFail
  \/ Summary
  \/ Rerun

Spec == Init /\ [][Next]_vars

\* ------------------------------------------------------------------------
\* The render functions applied to drawn arguments
\* ------------------------------------------------------------------------

\* the identifiers main() passes as svg_id
SvgIds == {TILE_DEFINITIONS[k].id : k \in 1..Len(TILE_DEFINITIONS)} \cup {"start", "goal"}

RoadCalls ==
  {[fn |-> "generate_road_svg", svg_id |-> id, tile |-> TILE_DEFINITIONS[k]] :
     id \in SvgIds, k \in 1..Len(TILE_DEFINITIONS)}

MarkerCalls ==
  {[fn |-> "generate_marker_svg", svg_id |-> id, marker_content |-> m] :
     id \in SvgIds, m \in {START_MARKER, GOAL_MARKER}}

InitRender ==
  /\ pc = "off"
  /\ run = 1
  /\ dir = "missing"
  /\ files = NoFiles
  /\ i = 0
  /\ out = <<>>
  /\ mkdirs = 0
  /\ attempted = <<>>
  /\ written = <<>>
  /\ startedEmpty = TRUE
  /\ prevDone = FALSE
  /\ prevFiles = NoFiles
  /\ call \in RoadCalls \cup MarkerCalls
  /\ ret = ""

CallRoad ==
  /\ call.fn = "generate_road_svg"
  /\ ret = ""
  /\ ret' = generate_road_svg(call.svg_id, call.tile)
  /\ UNCHANGED <<mainVars, call>>

CallMarker ==
  /\ call.fn = "generate_marker_svg"
  /\ ret = ""
  /\ ret' = generate_marker_svg(call.svg_id, call.marker_content)
  /\ UNCHANGED <<mainVars, call>>

NextRender ==
  \/ CallRoad
  \/ CallMarker

SpecRender == InitRender /\ [][NextRender]_vars

\* ------------------------------------------------------------------------
\* Reading a document: elements, groups and attributes from its characters
\* ------------------------------------------------------------------------

\* value of an attribute that is absent
NoAttr == "<absent>"

\* all positions where pat occurs in str
Occ(str, pat) ==
  {k \in 1..(Len(str) - Len(pat) + 1) : SubSeq(str, k, k + Len(pat) - 1) = pat}

\* first position >= from where pat occurs in str, 0 when there is none
RECURSIVE FindFirst(_, _, _)
FindFirst(str, pat, from) ==
  LET last == Len(str) - Len(pat) + 1
      hi == IF from + 15 < last THEN from + 15 ELSE last
      hits == {k \in from..hi : SubSeq(str, k, k + Len(pat) - 1) = pat}
  IN IF from > last THEN 0
     ELSE IF hits # {} THEN Min(hits)
     ELSE FindFirst(str, pat, hi + 1)

\* the members of a set of numbers in increasing order
Sorted(S) ==
  [k \in 1..Cardinality(S) |-> CHOOSE v \in S : Cardinality({w \in S : w < v}) = k - 1]

\* the pieces of str between occurrences of the one-character separator sep
Split(str, sep) ==
  LET cuts == Sorted(Occ(str, sep))
      n == Len(cuts)
  IN [k \in 1..(n + 1) |->
        SubSeq(str, IF k = 1 THEN 1 ELSE cuts[k - 1] + 1,
                    IF k = n + 1 THEN Len(str) ELSE cuts[k] - 1)]

\* the tag starting at position p, up to and including its closing ">"
TagAt(str, p) ==
  LET q == FindFirst(str, ">", p)
  IN IF q = 0 THEN SubSeq(str, p, Len(str)) ELSE SubSeq(str, p, q)

\* the value of attribute name in a tag, NoAttr when the tag has none
Attr(tag, name) ==
  LET pat == " " \o name \o "=\""
      p == FindFirst(tag, pat, 1)
      from == p + Len(pat)
      q == FindFirst(tag, "\"", from)
  IN IF p = 0 \/ q = 0 THEN NoAttr ELSE SubSeq(tag, from, q - 1)

\* the start tags of the elements called name, in document order
Elements(str, name) ==
  LET starts == Sorted(Occ(str, "<" \o name \o " "))
  IN [k \in 1..Len(starts) |-> TagAt(str, starts[k])]

\* the groups of a document (they do not nest): start tag and whole text
Groups(doc) ==
  LET starts == Sorted(Occ(doc, "<g "))
  IN [k \in 1..Len(starts) |->
        LET q == FindFirst(doc, "</g>", starts[k])
        IN [open |-> TagAt(doc, starts[k]),
            body |-> SubSeq(doc, starts[k], IF q = 0 THEN Len(doc) ELSE q + 3)]]

\* a presentation attribute of an element: its own, else its group's
Effective(tag, group, name) ==
  IF Attr(tag, name) # NoAttr THEN Attr(tag, name) ELSE Attr(group.open, name)

\* position of the first tag that is neither a declaration nor a comment
RECURSIVE FirstElementAt(_, _)
FirstElementAt(doc, from) ==
  LET p == FindFirst(doc, "<", from)
  IN IF p = 0 THEN 0
     ELSE IF SubSeq(doc, p + 1, p + 1) \in {"?", "!"} THEN FirstElementAt(doc, p + 1)
     ELSE p

\* the id attribute of the root element when that element is an svg element
RootId(doc) ==
  LET p == FirstElementAt(doc, 1)
      tag == IF p = 0 THEN "" ELSE TagAt(doc, p)
  IN IF p # 0 /\ SubSeq(tag, 1, 5) = "<svg " THEN Attr(tag, "id") ELSE NoAttr

\* Path(filename).stem
Stem(filename) ==
  LET dots == Occ(filename, ".")
  IN IF dots = {} THEN filename ELSE SubSeq(filename, 1, Max(dots) - 1)

\* the groups of a document that hold elements called name
GroupsWith(doc, name) ==
  LET gs == Groups(doc)
  IN {k \in 1..Len(gs) : Len(Elements(gs[k].body, name)) > 0}

\* the port markers of a document: circles of radius 1 filled with #ff0000,
\* as <<cx, cy>> in document order
PortMarkersOf(doc) ==
  LET gs == Groups(doc)
      InGroup(g) ==
        LET cs == Elements(g.body, "circle")
        IN SelectSeq(
             [k \in 1..Len(cs) |-> [tag |-> cs[k], g |-> g]],
             LAMBDA c : /\ Attr(c.tag, "r") = "1"
                        /\ Effective(c.tag, c.g, "fill") = "#ff0000")
      RECURSIVE All(_)
      All(k) == IF k > Len(gs) THEN <<>> ELSE InGroup(gs[k]) \o All(k + 1)
      ms == All(1)
  IN [k \in 1..Len(ms) |-> <<Attr(ms[k].tag, "cx"), Attr(ms[k].tag, "cy")>>]

\* start and end point of a path: the two numbers after the leading M and
\* the last two numbers, as written
PathEnds(d) ==
  LET t == Split(d, " ")
      n == Len(t)
  IN IF n < 5 \/ t[1] # "M" THEN [start |-> <<NoAttr, NoAttr>>, end |-> <<NoAttr, NoAttr>>]
     ELSE [start |-> <<t[2], t[3]>>, end |-> <<t[n - 1], t[n]>>]

\* ------------------------------------------------------------------------
\* Properties of the rendered documents (specification SpecRender)
\* ------------------------------------------------------------------------

Range(f) == {f[k] : k \in DOMAIN f}

RoadReturned == call.fn = "generate_road_svg" /\ ret # ""

MarkerReturned == call.fn = "generate_marker_svg" /\ ret # ""

\* exactly one group of doc holds path elements; it holds two, drawn with
\* stroke #000000 and fill none, whose d attributes are outer then inner
RoadGroupOk(doc, outer, inner) ==
  LET gs == Groups(doc)
      road == GroupsWith(doc, "path")
  IN /\ Cardinality(road) = 1
     /\ \A k \in road :
          LET ps == Elements(gs[k].body, "path")
          IN /\ Len(ps) = 2
             /\ \A j \in 1..Len(ps) :
                  /\ Effective(ps[j], gs[k], "stroke") = "#000000"
                  /\ Effective(ps[j], gs[k], "fill") = "none"
             /\ Attr(ps[1], "d") = outer
             /\ Attr(ps[2], "d") = inner

\* C3: generate_road_svg(id, tile) yields a document whose road group holds
\* exactly two path elements, stroke #000000 and fill none, whose d
\* attributes are tile.outer_path then tile.inner_path verbatim; sharp-12-12
\* and straight-v-12 give the paths the specification quotes.
C3_RoadGroupPaths ==
  RoadReturned =>
    /\ RoadGroupOk(ret, call.tile.outer_path, call.tile.inner_path)
    /\ call.tile.id = "sharp-12-12" =>
         RoadGroupOk(ret, "M 10 0 L 10 20 L 40 20", "M 20 0 L 20 10 L 40 10")
    /\ call.tile.id = "straight-v-12" =>
         RoadGroupOk(ret, "M 10 0 C 10 20, 20 20, 20 40", "M 20 0 C 20 20, 30 20, 30 40")

C3_Witness ==
  /\ RoadReturned
  /\ call.tile.id = "sharp-12-12"
  /\ Len(Elements(ret, "path")) = 2
  /\ Attr(Elements(ret, "path")[1], "d") = "M 10 0 L 10 20 L 40 20"

\* the 12 positions where grid lines 10, 20, 30 meet the four tile edges
PortPositions ==
  UNION {{<<ToString(g), "0">>, <<ToString(g), "40">>,
          <<"0", ToString(g)>>, <<"40", ToString(g)>>} : g \in {10, 20, 30}}

\* C4: a document contains port markers iff it is a road tile: a road-tile
\* document has exactly 12 (radius 1, fill #ff0000), one at each of the 12
\* port positions; a marker document has none and still has the grid group.
C4_PortMarkersIffRoad ==
  ret # "" =>
    LET pm == PortMarkersOf(ret)
    IN IF call.fn = "generate_road_svg"
       THEN Len(pm) = 12 /\ Range(pm) = PortPositions
       ELSE Len(pm) = 0 /\ GroupsWith(ret, "line") # {}

C4_Witness ==
  /\ MarkerReturned
  /\ call.marker_content = GOAL_MARKER
  /\ Len(Elements(ret, "circle")) = 3
  /\ Len(PortMarkersOf(ret)) = 0
  /\ GroupsWith(ret, "line") # {}

\* exactly one group of doc holds line elements; it holds n of them, each
\* drawn with stroke #cccccc and stroke width 0.5
GridGroupOk(doc, n) ==
  LET gs == Groups(doc)
      grid == GroupsWith(doc, "line")
  IN /\ Cardinality(grid) = 1
     /\ \A k \in grid :
          LET ls == Elements(gs[k].body, "line")
          IN /\ Len(ls) = n
             /\ \A j \in 1..Len(ls) :
                  /\ Effective(ls[j], gs[k], "stroke") = "#cccccc"
                  /\ Effective(ls[j], gs[k], "stroke-width") = "0.5"

\* the line elements of doc as <<x1, y1, x2, y2>>
LineCoords(doc) ==
  LET ls == Elements(doc, "line")
  IN {<<Attr(ls[k], "x1"), Attr(ls[k], "y1"), Attr(ls[k], "x2"), Attr(ls[k], "y2")>> :
        k \in 1..Len(ls)}

GridPositions == {"0", "10", "20", "30", "40"}

\* C5 as stated: the grid-lines group of every generated document contains
\* 11 line elements, with stroke #cccccc and stroke width 0.5.
C5_ElevenGridLines == ret # "" => GridGroupOk(ret, 11)

\* C5 amended: the grid-lines group of every generated document contains 10
\* line elements, 5 vertical and 5 horizontal at 0, 10, 20, 30, 40 (the
\* boundary lines are the ones at 0 and 40), stroke #cccccc, width 0.5.
C5_TenGridLines ==
  ret # "" =>
    /\ GridGroupOk(ret, 10)
    /\ LineCoords(ret) =
         {<<g, "0", g, "40">> : g \in GridPositions}
           \cup {<<"0", g, "40", g>> : g \in GridPositions}

C5_Witness ==
  /\ MarkerReturned
  /\ Len(Elements(ret, "line")) = 10
  /\ <<"40", "0", "40", "40">> \in LineCoords(ret)

\* Port System of the module docstring: port n is at position 10 * n, and
\* a PortSet names its ports by their digits
PortSetPositions(portset) ==
  {ToString(10 * (CHOOSE n \in 0..9 : ToString(n) = SubSeq(portset, k, k))) :
     k \in 1..Len(portset)}

\* C10: for every curve and sharp tile <kind>[-ul]-<a>-<b>, the outer and
\* inner paths start on the top edge (y = 0) at the two x positions of port
\* set a and end on the right edge (x = 40), or the left edge (x = 0) for
\* -ul tiles, at the two y positions of port set b.
C10_EndpointsMatchPorts ==
  (RoadReturned /\ call.svg_id = call.tile.id
     /\ Split(call.svg_id, "-")[1] \in {"curve", "sharp"}) =>
    LET parts == Split(call.svg_id, "-")
        n == Len(parts)
        edge == IF parts[2] = "ul" THEN "0" ELSE "40"
        ps == Elements(ret, "path")
        outer == PathEnds(Attr(ps[1], "d"))
        inner == PathEnds(Attr(ps[2], "d"))
    IN /\ outer.start[2] = "0"
       /\ inner.start[2] = "0"
       /\ {outer.start[1], inner.start[1]} = PortSetPositions(parts[n - 1])
       /\ outer.end[1] = edge
       /\ inner.end[1] = edge
       /\ {outer.end[2], inner.end[2]} = PortSetPositions(parts[n])

\* ------------------------------------------------------------------------
\* Properties of a run of main() (specification Spec)
\* ------------------------------------------------------------------------

\* the 24 road-tile names of the output contract
ContractTileNames ==
  {"curve-12-12", "curve-12-23", "curve-23-12", "curve-23-23",
   "curve-ul-12-12", "curve-ul-12-23", "curve-ul-23-12", "curve-ul-23-23",
   "sharp-12-12", "sharp-12-23", "sharp-23-12", "sharp-23-23",
   "sharp-ul-12-12", "sharp-ul-12-23", "sharp-ul-23-12", "sharp-ul-23-23",
   "straight-v-11", "straight-v-12", "straight-v-21", "straight-v-22",
   "straight-h-44", "straight-h-48", "straight-h-84", "straight-h-88"}

ContractFiles == {n \o ".svg" : n \in ContractTileNames \cup {"start", "goal"}}

\* number of entries of seq equal to v
Count(seq, v) == Cardinality({k \in 1..Len(seq) : seq[k] = v})

HasPrefix(str, pre) == Len(str) >= Len(pre) /\ SubSeq(str, 1, Len(pre)) = pre

StatusLine(filename) == "  Generated: " \o filename

\* the filenames of a whole run, in the order main() writes them
RunOrder ==
  [k \in 1..(Len(TILE_DEFINITIONS) + 2) |->
     IF k <= Len(TILE_DEFINITIONS) THEN TILE_DEFINITIONS[k].id \o ".svg"
     ELSE IF k = Len(TILE_DEFINITIONS) + 1 THEN "start.svg" ELSE "goal.svg"]

\* C1: a successful run started on an empty or missing directory leaves
\* exactly the 26 contract files, pairwise distinct, each written exactly
\* once during the run.
C1_ExactlyTheContractFiles ==
  (pc = "done" /\ startedEmpty) =>
    /\ DOMAIN files = ContractFiles
    /\ Cardinality(DOMAIN files) = 26
    /\ Len(written) = 26
    /\ \A f \in ContractFiles : Count(written, f) = 1 /\ Count(attempted, f) = 1

C1_Witness ==
  /\ pc = "done"
  /\ startedEmpty
  /\ Cardinality(DOMAIN files) = 26
  /\ Len(written) = 26

\* the files whose content is read back in this state: the one the last
\* status line reports, and every written file once the run has ended
ReadBack ==
  IF pc = "done" THEN Range(written)
  ELSE IF written = <<>> THEN {}
  ELSE {written[Len(written)]}

\* C2: for every file <name>.svg written by main(), the id attribute of the
\* root svg element of its content equals <name>.
C2_RootIdIsFilenameStem ==
  \A f \in ReadBack :
    /\ f \in DOMAIN files
    /\ HasPrefix(files[f], "<?xml ")
    /\ RootId(files[f]) = Stem(f)
    /\ f = Stem(f) \o ".svg"

C2_Witness ==
  /\ pc = "done"
  /\ Len(written) = 26
  /\ "goal.svg" \in DOMAIN files
  /\ RootId(files["goal.svg"]) = "goal"
  /\ "curve-ul-12-12.svg" \in DOMAIN files
  /\ RootId(files["curve-ul-12-12.svg"]) = "curve-ul-12-12"

\* C6: whatever the directory held before, a run that ends normally leaves
\* each of the 26 files with the render of its identifier, so the files of
\* two consecutive runs are equal.
C6_ResultIndependentOfPriorContents ==
  pc = "done" =>
    /\ \A k \in 1..Len(TILE_DEFINITIONS) :
         LET f == TILE_DEFINITIONS[k].id \o ".svg"
         IN /\ f \in DOMAIN files
            /\ files[f] = generate_road_svg(TILE_DEFINITIONS[k].id, TILE_DEFINITIONS[k])
    /\ "start.svg" \in DOMAIN files
    /\ files["start.svg"] = generate_marker_svg("start", START_MARKER)
    /\ "goal.svg" \in DOMAIN files
    /\ files["goal.svg"] = generate_marker_svg("goal", GOAL_MARKER)
    /\ prevDone =>
         \A f \in ContractFiles :
           f \in DOMAIN files /\ f \in DOMAIN prevFiles /\ files[f] = prevFiles[f]

C6_Witness ==
  /\ pc = "done"
  /\ prevDone
  /\ ContractFiles \subseteq DOMAIN prevFiles
  /\ \A f \in ContractFiles : files[f] = prevFiles[f]

\* C7: a filesystem failure aborts the run at once: when mkdir fails no file
\* is written; when the k-th write fails it is not retried, no later file of
\* the run order is written or attempted, and neither a status line for it
\* nor the final count is printed.
C7_FailureAbortsTheRun ==
  /\ (mkdirs > 0 /\ dir = "missing") =>
       /\ pc = "aborted"
       /\ attempted = <<>>
       /\ written = <<>>
       /\ files = NoFiles
  /\ Len(attempted) # Len(written) =>
       LET k == Len(attempted)
       IN /\ pc = "aborted"
          /\ Len(written) = k - 1
          /\ k <= Len(RunOrder)
          /\ attempted = SubSeq(RunOrder, 1, k)
          /\ written = SubSeq(RunOrder, 1, k - 1)
          /\ Count(attempted, attempted[k]) = 1
          /\ Count(out, StatusLine(attempted[k])) = 0
          /\ \A j \in 1..Len(out) : ~HasPrefix(out[j], "Generation complete!")

C7_Witness ==
  /\ pc = "aborted"
  /\ Len(attempted) = 5
  /\ Len(written) = 4
  /\ attempted[5] \in DOMAIN files
  /\ files[attempted[5]] = ""

\* C8: in every run the output directory is created (or found to exist)
\* exactly once, before the first write: write_svg is never called in a
\* state where that step has not completed successfully.
C8_MkdirOnceBeforeAnyWrite ==
  /\ mkdirs <= 1
  /\ pc \notin {"mkdir", "off"} => mkdirs = 1
  /\ attempted # <<>> => mkdirs = 1 /\ dir = "present"

C8_Witness ==
  /\ Len(attempted) = 1
  /\ Len(written) = 1
  /\ mkdirs = 1
  /\ dir = "present"

\* C9: in every run that reaches the summary, exactly one status line has
\* been printed per file written, and the count reported equals the number
\* of files the run wrote, which is 26.
C9_StatusLinesAndFinalCount ==
  /\ pc \in {"summary", "done"} =>
       /\ Len(written) = 26
       /\ Cardinality({j \in 1..Len(out) : HasPrefix(out[j], "  Generated: ")}) = Len(written)
       /\ \A f \in Range(written) : Count(out, StatusLine(f)) = 1
  /\ pc = "done" =>
       /\ Cardinality({j \in 1..Len(out) : HasPrefix(out[j], "Generation complete!")}) = 1
       /\ Count(out, CountLine(Len(written))) = 1
       /\ Count(out, "Generation complete! 26 SVG files created.") = 1

C9_Witness ==
  /\ pc = "done"
  /\ Len(written) = 26
  /\ Count(out, "Generation complete! 26 SVG files created.") = 1

====
